---- MODULE Spec2Model ----
(***************************************************************************)
(* Model of the content script of the Twitter location-flag extension      *)
(* (src/README.md, lines 30-839) and of its popup (src/popup.js).          *)
(*                                                                         *)
(* One event loop: an action is one macrotask together with the microtasks *)
(* (promise continuations) it leaves behind.  Time is in milliseconds.     *)
(* now is Date.now(); a timer is the instant at which it is due.           *)
(***************************************************************************)
EXTENDS Integers, Sequences, FiniteSets, TLC

\* ---------------------------------------------------------------- constants
MIN_REQUEST_INTERVAL == 500
MAX_CONCURRENT_REQUESTS == 5
REARM_DELAY == 200
REQUEST_TIMEOUT == 10000
SAVE_DEBOUNCE == 5000
WAITER_SLEEP == 500
TOGGLE_SCAN_DELAY == 500
DEFAULT_ENABLED == TRUE
RATE_LIMIT_MAX_WAIT == 60000
CACHE_EXPIRY_DAYS == 30

\* ------------------------------------------------------------------- bounds
\* Date.now() when the page starts.
StartTime == 10000
\* Nodes of the document that carry a user name.
NumNodes == 2
\* Promises of getUserLocation alive at once (queued, posted or awaited).
MaxRid == 2
\* Direct calls of getUserLocation made by the driver of the scheduler.
MaxCalls == 6
\* Direct calls of getUserLocation made under rate limits.
LimitCalls == 2
\* Direct calls of getUserLocation made in the progress specification.
LiveCalls == 6
\* Direct calls of getUserLocation made by the driver of the bridge.
BridgeCalls == 2
\* Direct calls of getUserLocation made by the driver of the cache.
CacheCalls == 2
\* The clocked scheduler specification: longest pause between two events and
\* the instant after which the clock stops.
SchedStep == 500
SchedHorizon == 12000
\* The same for the clocked bridge specification.
BridgeStep == 2500
BridgeHorizon == 20500
\* Links in a container handed to extractUsername.
MaxLinks == 2
\* Clicks on the popup's switch.
MaxClicks == 3
\* Calls of getUserLocation under the fair cache specification.
StoreCalls == 2
\* The same for the clocked cache specification, and its calls.
FlushCalls == 2
FlushStep == 2500
FlushHorizon == 20000
\* Largest reset delay, in seconds, a rate-limit notification carries.
MaxResetSec == 2

NULL == "null"
Absent == "absent"
NoTimer == 0 - 1

Nodes == 1..NumNodes
Ids == {"a", "b"}
\* Location texts: "L1" has a country code, "L0" has none.
Locations == {"L1", "L0"}

Min(a, b) == IF a < b THEN a ELSE b

VARIABLES
  now,                 \* Date.now()
  locationCache,       \* Map: identifier -> location | NULL, Absent when no key
  storedCache,         \* chrome.storage.local[CACHE_KEY]
  saveCacheTimeout,    \* saveCache.timeout: NoTimer or the instant it is due
  saving,              \* the debounce callback is awaiting saveCache()
  requestQueue,        \* sequence of [screenName, rid]
  isProcessingQueue,
  drainWake,           \* the drain loop's sleep: NoTimer or the instant it ends
  lastRequestTime,
  activeRequests,
  rateLimitResetTime,  \* seconds
  queueTimers,         \* setTimeout(processRequestQueue, ...): due instants
  listeners,           \* makeLocationRequest handlers: [rid, screenName, at]
  pending,             \* pending promises of makeLocationRequest: [rid, since]
  posted,              \* __fetchLocation messages the page has not answered
  extensionEnabled,
  processingUsernames,
  present,             \* nodes in the document
  flagAdded,           \* node -> dataset.flagAdded
  flags,               \* node -> number of [data-twitter-flag] images
  calls,               \* suspended addFlagToUsername / getUserLocation calls
  scanTimers,          \* setTimeout(processUsernames, 500): due instants
  runtimeValid,        \* chrome.runtime.id is there (context not invalidated)
  cacheLoading,        \* loadCache() is awaiting chrome.storage.local.get
  results,             \* what the driver's getUserLocation promises gave
  lastPost,            \* history: instant of the last __fetchLocation posted
  storedEnabled,       \* chrome.storage.local[TOGGLE_KEY]: {} when undefined, or {v}
  clicks,              \* clicks on the popup's switch so far
  popupOps,            \* click handlers of the popup awaiting a callback
  lastSent,            \* history: {} or {enabled of the last extensionToggle sent}
  container,           \* a User-Name element handed to extractUsername: its links
  extracted            \* [done, username]: what extractUsername(container) returned

vars == <<now, locationCache, storedCache, saveCacheTimeout, saving, requestQueue,
          isProcessingQueue, drainWake, lastRequestTime, activeRequests,
          rateLimitResetTime, queueTimers, listeners, pending, posted,
          extensionEnabled, processingUsernames, present, flagAdded, flags,
          calls, scanTimers, runtimeValid, cacheLoading, results,
          lastPost, storedEnabled, clicks, popupOps, lastSent, container,
          extracted>>

domVars == <<container, extracted>>
popupVars == <<storedEnabled, clicks, popupOps, lastSent>>

\* The identifier extractUsername derives from a node (nodes 1 and 2 show the
\* same account).
IdOf(n) == IF n <= 2 THEN "a" ELSE "b"

\* ------------------------------------------------------------ state records
\* A handler is a function from the state before it to the state after it.
\* clocked tells whether the specification runs the clock: when it does not,
\* a timer is due from the moment it is set and may run after any pause.
St(clk) ==
  [clocked |-> clk, locationCache |-> locationCache, storedCache |-> storedCache,
   saveCacheTimeout |-> saveCacheTimeout, saving |-> saving,
   requestQueue |-> requestQueue, isProcessingQueue |-> isProcessingQueue,
   drainWake |-> drainWake, lastRequestTime |-> lastRequestTime,
   activeRequests |-> activeRequests, rateLimitResetTime |-> rateLimitResetTime,
   queueTimers |-> queueTimers, listeners |-> listeners, pending |-> pending,
   posted |-> posted, extensionEnabled |-> extensionEnabled,
   processingUsernames |-> processingUsernames, present |-> present,
   flagAdded |-> flagAdded, flags |-> flags, calls |-> calls,
   scanTimers |-> scanTimers, runtimeValid |-> runtimeValid,
   cacheLoading |-> cacheLoading,
   results |-> results, lastPost |-> lastPost]

Commit(s) ==
  /\ locationCache' = s.locationCache
  /\ storedCache' = s.storedCache
  /\ saveCacheTimeout' = s.saveCacheTimeout
  /\ saving' = s.saving
  /\ requestQueue' = s.requestQueue
  /\ isProcessingQueue' = s.isProcessingQueue
  /\ drainWake' = s.drainWake
  /\ lastRequestTime' = s.lastRequestTime
  /\ activeRequests' = s.activeRequests
  /\ rateLimitResetTime' = s.rateLimitResetTime
  /\ queueTimers' = s.queueTimers
  /\ listeners' = s.listeners
  /\ pending' = s.pending
  /\ posted' = s.posted
  /\ extensionEnabled' = s.extensionEnabled
  /\ processingUsernames' = s.processingUsernames
  /\ present' = s.present
  /\ flagAdded' = s.flagAdded
  /\ flags' = s.flags
  /\ calls' = s.calls
  /\ scanTimers' = s.scanTimers
  /\ runtimeValid' = s.runtimeValid
  /\ cacheLoading' = s.cacheLoading
  /\ results' = s.results
  /\ lastPost' = s.lastPost

\* The promises alive in s, by the number that stands for each.
UsedRids(s) ==
  {s.requestQueue[i].rid : i \in 1..Len(s.requestQueue)}
    \cup {q.rid : q \in s.pending}
    \cup {m.rid : m \in s.posted} \cup {l.rid : l \in s.listeners}
    \cup {c.rid : c \in s.calls}

\* new Promise(...) in getUserLocation; its number is also the requestId of
\* the bridge request made for it (Date.now() + Math.random(): never reused
\* while the old one is alive).
FreshRid(s) == CHOOSE r \in 1..(Cardinality(UsedRids(s)) + 1) :
                 /\ r \notin UsedRids(s)
                 /\ \A q \in 1..(r - 1) : q \in UsedRids(s)

RidsWithin(s, maxRid) == \A r \in UsedRids(s) : r <= maxRid

After(s, ms) == IF s.clocked THEN now + ms ELSE now

\* ------------------------------------------------------------ location cache
NowSec == now \div 1000

\* The stamps of a stored entry are instants up to 30 days away, past the
\* integers of the checker: they are held as whole days plus milliseconds.
Stamp(day, ms) == [day |-> day, ms |-> ms]
Later(a, b) == a.day > b.day \/ (a.day = b.day /\ a.ms > b.ms)

\* saveCache(): the object it builds and hands to chrome.storage.local.set.
NoEntry == [location |-> Absent, expiry |-> Stamp(0, 0), cachedAt |-> Stamp(0, 0)]

CacheObj(s) ==
  [u \in Ids |->
     IF s.locationCache[u] = Absent THEN NoEntry
     ELSE [location |-> s.locationCache[u],
           expiry |-> Stamp(CACHE_EXPIRY_DAYS, now), cachedAt |-> Stamp(0, now)]]

\* saveCacheEntry(username, location)
SaveCacheEntry(s, u, location) ==
  IF ~s.runtimeValid THEN s
  ELSE
  [s EXCEPT !.locationCache[u] = location,
            !.saveCacheTimeout =
               IF @ = NoTimer THEN After(s, SAVE_DEBOUNCE) ELSE @]

\* -------------------------------------------------------- request scheduler
\* makeLocationRequest(screenName): the handler, the posted message and the
\* 10 s timer.  (After a match the timer still runs; by then its callback
\* removes a listener that is gone and resolves a settled promise, which
\* changes nothing, so only the timers of unmatched requests are kept.)
MakeLocationRequest(s, req) ==
  [s EXCEPT !.listeners = @ \cup {[rid |-> req.rid, screenName |-> req.screenName,
                                   at |-> After(s, REQUEST_TIMEOUT)]},
            !.pending = @ \cup {[rid |-> req.rid, since |-> now]},
            !.posted = @ \cup {[rid |-> req.rid, screenName |-> req.screenName]},
            !.lastPost = now]

\* The dispatch taking the newest request (pop) instead of the oldest (shift).
DispatchLast(s) ==
  MakeLocationRequest(
    [s EXCEPT !.requestQueue = SubSeq(@, 1, Len(@) - 1),
              !.activeRequests = @ + 1,
              !.lastRequestTime = now],
    s.requestQueue[Len(s.requestQueue)])

\* Lines 195-199: shift, count, stamp, send.
DispatchHead(s) ==
  MakeLocationRequest(
    [s EXCEPT !.requestQueue = Tail(@),
              !.activeRequests = @ + 1,
              !.lastRequestTime = now],
    Head(s.requestQueue))

\* The loop without the sleep of lines 191-193.
RECURSIVE DispatchLoopNoSleep(_)
DispatchLoopNoSleep(s) ==
  IF s.requestQueue # <<>> /\ s.activeRequests < MAX_CONCURRENT_REQUESTS
  THEN DispatchLoopNoSleep(DispatchHead(s))
  ELSE [s EXCEPT !.isProcessingQueue = FALSE]

\* The while loop of processRequestQueue from its test to its next await (the
\* sleep) or to its end.
RECURSIVE DispatchLoop(_)
DispatchLoop(s) ==
  IF s.requestQueue # <<>> /\ s.activeRequests < MAX_CONCURRENT_REQUESTS
  THEN LET timeSinceLastRequest == now - s.lastRequestTime IN
       IF timeSinceLastRequest < MIN_REQUEST_INTERVAL
       THEN [s EXCEPT !.drainWake =
                        After(s, MIN_REQUEST_INTERVAL - timeSinceLastRequest)]
       ELSE DispatchLoop(DispatchHead(s))
  ELSE [s EXCEPT !.isProcessingQueue = FALSE]

\* processRequestQueue() without the setTimeout of line 178.
ProcessRequestQueueNoRearm(s) ==
  IF s.isProcessingQueue \/ s.requestQueue = <<>> THEN s
  ELSE IF s.rateLimitResetTime > 0 /\ NowSec < s.rateLimitResetTime
  THEN s
  ELSE DispatchLoop([s EXCEPT !.rateLimitResetTime = 0,
                              !.isProcessingQueue = TRUE])

\* processRequestQueue() from its call to its first await or its return.
ProcessRequestQueue(s) ==
  IF s.isProcessingQueue \/ s.requestQueue = <<>> THEN s
  ELSE IF s.rateLimitResetTime > 0 /\ NowSec < s.rateLimitResetTime
  THEN LET waitTime == (s.rateLimitResetTime - NowSec) * 1000 IN
       [s EXCEPT !.queueTimers = @ \cup {After(s, Min(waitTime, RATE_LIMIT_MAX_WAIT))}]
  ELSE DispatchLoop([s EXCEPT !.rateLimitResetTime = 0,
                              !.isProcessingQueue = TRUE])

\* ------------------------------------------------------------ flag annotator
\* getCountryCode(location): the mapping table is not part of the sources;
\* "L1" stands for a text it maps and "L0" for one it does not.
GetCountryCode(location) == IF location = "L1" THEN "c1" ELSE NULL

\* The insertion without the test of lines 600-607.
InsertFlagUnchecked(s, n) == [s EXCEPT !.flags[n] = @ + 1]

\* Lines 600-607: an existing [data-twitter-flag] child stops the insertion.
InsertFlag(s, n) ==
  IF s.flags[n] > 0 THEN s ELSE [s EXCEPT !.flags[n] = @ + 1]

\* addFlagToUsername after "await getUserLocation(screenName)", lines 502-757.
\* c is the suspended call; removing it from calls removes its shimmer, which
\* every path does.  The node is taken to hold the link of its own handle, so
\* the link search of lines 526-596 and the insertion of lines 625-703 succeed.
AddFlagFinish(s, c, location) ==
  LET n == c.node
      s1 == [s EXCEPT !.calls = @ \ {c}]
      s2 == IF location = NULL
            THEN [s1 EXCEPT !.flagAdded[n] = "failed"]
            ELSE IF GetCountryCode(location) = NULL
            THEN [s1 EXCEPT !.flagAdded[n] = "failed"]
            ELSE [InsertFlag(s1, n) EXCEPT !.flagAdded[n] = "true"]
  IN [s2 EXCEPT !.processingUsernames = @ \ {IdOf(n)}]

\* What runs when the promise rid of getUserLocation is resolved with v.
ResumeCaller(s, rid, v) ==
  LET cs == {c \in s.calls : c.rid = rid} IN
  IF cs = {} THEN s
  ELSE LET c == CHOOSE x \in cs : TRUE IN
       IF c.kind = "direct"
       THEN [s EXCEPT !.calls = @ \ {c}, !.results[c.k] = v]
       ELSE AddFlagFinish(s, c, v)

\* The chain without the activeRequests-- of line 207.
SettleNoDecrement(s, rid, v) ==
  IF \A q \in s.pending : q.rid # rid THEN s
  ELSE LET s1 == ResumeCaller(
                   [s EXCEPT !.pending = {q \in @ : q.rid # rid}], rid, v) IN
       [s1 EXCEPT !.queueTimers = @ \cup {After(s, REARM_DELAY)}]

\* resolve(v) of the promise of makeLocationRequest and the chain of lines
\* 199-209 behind it.  A settled promise ignores it.
Settle(s, rid, v) ==
  IF \A q \in s.pending : q.rid # rid THEN s
  ELSE LET s1 == ResumeCaller(
                   [s EXCEPT !.pending = {q \in @ : q.rid # rid}], rid, v) IN
       [s1 EXCEPT !.activeRequests = @ - 1,
                  !.queueTimers = @ \cup {After(s, REARM_DELAY)}]

\* The handler without the test of line 229 for a rate-limited response.
OnLocationResponseAlwaysCaches(s, l, location, isRateLimited) ==
  Settle(SaveCacheEntry([s EXCEPT !.listeners = @ \ {l}], l.screenName, location),
         l.rid, location)

\* The message handler of makeLocationRequest run on a __locationResponse.
OnLocationResponse(s, l, location, isRateLimited) ==
  LET s1 == [s EXCEPT !.listeners = @ \ {l}]
      s2 == IF ~isRateLimited THEN SaveCacheEntry(s1, l.screenName, location)
            ELSE s1
  IN Settle(s2, l.rid, location)

\* The timer without the resolve(null) of line 250.
OnRequestTimeoutNoResolve(s, l) == [s EXCEPT !.listeners = @ \ {l}]

\* The timer without the removeEventListener of line 248.
OnRequestTimeoutKeepsListener(s, l) == Settle(s, l.rid, NULL)

\* The 10 s timer of makeLocationRequest, lines 247-251.
OnRequestTimeout(s, l) ==
  Settle([s EXCEPT !.listeners = @ \ {l}], l.rid, NULL)

\* getUserLocation(screenName) called on behalf of the suspended call c
\* (c.rid is set here).  A cached location resumes the caller in the same
\* macrotask; otherwise the request is queued and the drain is tried.
GetUserLocation(s, u, c) ==
  LET cached == s.locationCache[u] IN
  IF cached # Absent /\ cached # NULL
  THEN [s |-> s, hit |-> TRUE, value |-> cached, call |-> c]
  ELSE LET s1 == [s EXCEPT !.locationCache[u] = Absent]
           rid == FreshRid(s1)
           cc == [c EXCEPT !.rid = rid]
           s2 == [s1 EXCEPT !.requestQueue = Append(@, [screenName |-> u, rid |-> rid]),
                            !.calls = @ \cup {cc}]
       IN [s |-> ProcessRequestQueue(s2), hit |-> FALSE, value |-> NULL, call |-> cc]

NewCall(kind, n, at, k) ==
  [kind |-> kind, node |-> n, rid |-> 0, at |-> at, shimmer |-> kind = "await", k |-> k]

\* addFlagToUsername(usernameElement, screenName) from its call to its first
\* await, lines 448-501.  hit tells a cached location was returned, so that the
\* call resumes at the end of the macrotask.
AddFlagToUsername(s, n) ==
  LET u == IdOf(n) IN
  IF s.flagAdded[n] = "true"
  THEN [s |-> s, hit |-> FALSE, value |-> NULL, call |-> NewCall("wait", n, NoTimer, 0)]
  ELSE IF u \in s.processingUsernames
  THEN [s |-> [s EXCEPT !.calls = @ \cup {NewCall("wait", n, After(s, WAITER_SLEEP), 0)}],
        hit |-> FALSE, value |-> NULL, call |-> NewCall("wait", n, NoTimer, 0)]
  ELSE GetUserLocation(
         [s EXCEPT !.flagAdded[n] = "processing",
                   !.processingUsernames = @ \cup {u}],
         u, NewCall("await", n, NoTimer, 0))

\* The calls that got a cached location resume in the order they were made.
RECURSIVE FinishHits(_, _)
FinishHits(s, hits) ==
  IF hits = <<>> THEN s
  ELSE FinishHits(AddFlagFinish(s, Head(hits).call, Head(hits).value), Tail(hits))

\* The two forEach loops of processUsernames over the nodes n, n+1, ... in
\* document order.
RECURSIVE ScanFrom(_, _, _)
ScanFrom(s, n, hits) ==
  IF n > NumNodes THEN FinishHits(s, hits)
  ELSE IF n \in s.present /\ s.flagAdded[n] = "unset"
  THEN LET r == AddFlagToUsername(s, n) IN
       ScanFrom(r.s, n + 1, IF r.hit THEN Append(hits, r) ELSE hits)
  ELSE ScanFrom(s, n + 1, hits)

\* processUsernames()
ProcessUsernames(s) ==
  IF ~s.extensionEnabled THEN s ELSE ScanFrom(s, 1, <<>>)

\* The reset without the removal of the shimmers, lines 764-765.
RemoveAllFlagsKeepsShimmers(s) ==
  [s EXCEPT !.flags = [n \in Nodes |-> 0],
            !.flagAdded = [n \in Nodes |-> "unset"],
            !.locationCache = [u \in Ids |-> Absent],
            !.processingUsernames = {}]

\* The reset without the locationCache.clear() of line 772.
RemoveAllFlagsKeepsCache(s) ==
  [s EXCEPT !.flags = [n \in Nodes |-> 0],
            !.calls = {[c EXCEPT !.shimmer = FALSE] : c \in @},
            !.flagAdded = [n \in Nodes |-> "unset"],
            !.processingUsernames = {}]

\* removeAllFlags()
RemoveAllFlags(s) ==
  [s EXCEPT !.flags = [n \in Nodes |-> 0],
            !.calls = {[c EXCEPT !.shimmer = FALSE] : c \in @},
            !.flagAdded = [n \in Nodes |-> "unset"],
            !.locationCache = [u \in Ids |-> Absent],
            !.processingUsernames = {}]

\* Lines 455-459: the waiter after its sleep.
WaiterResume(s, c) ==
  LET s1 == [s EXCEPT !.calls = @ \ {c}] IN
  IF s1.flagAdded[c.node] = "true" THEN s1
  ELSE [s1 EXCEPT !.flagAdded[c.node] = "waiting"]

\* The load without the test of line 87 for a null location.
LoadEntriesWithNull(s) ==
  [s EXCEPT !.locationCache =
     [u \in Ids |->
        LET data == s.storedCache[u] IN
        IF data.location # Absent /\ Later(data.expiry, Stamp(0, now))
        THEN data.location ELSE @[u]]]

\* loadCache() after its await, lines 84-94.
LoadEntries(s) ==
  [s EXCEPT !.locationCache =
     [u \in Ids |->
        LET data == s.storedCache[u] IN
        IF data.location # Absent /\ Later(data.expiry, Stamp(0, now))
           /\ data.location # NULL
        THEN data.location ELSE @[u]]]

\* ------------------------------------------------------------------ actions
\* What chrome.storage.local may hold for CACHE_KEY when the page starts: no
\* entry, a live entry, an entry saved with a null location, an expired one.
Entry(location, expiry) ==
  [location |-> location, expiry |-> expiry, cachedAt |-> Stamp(0, 0)]
InitialStores ==
  {[u \in Ids |-> IF u = "a" THEN e ELSE NoEntry] :
     e \in {NoEntry, Entry("L1", Stamp(CACHE_EXPIRY_DAYS, 0)),
            Entry(NULL, Stamp(CACHE_EXPIRY_DAYS, 0)), Entry("L1", Stamp(0, StartTime - 1))}}

\* The state when init() has run: the enabled flag is read, loadCache() is
\* awaiting the store, the observer and the interval are installed, and the
\* first scan found the document without any user name.
InitWith(stores, loading) ==
  /\ now = StartTime
  /\ locationCache = [u \in Ids |-> Absent]
  /\ storedCache \in stores
  /\ saveCacheTimeout = NoTimer
  /\ saving = FALSE
  /\ requestQueue = <<>>
  /\ isProcessingQueue = FALSE
  /\ drainWake = NoTimer
  /\ lastRequestTime = 0
  /\ activeRequests = 0
  /\ rateLimitResetTime = 0
  /\ queueTimers = {}
  /\ listeners = {}
  /\ pending = {}
  /\ posted = {}
  /\ extensionEnabled = TRUE
  /\ processingUsernames = {}
  /\ present = {}
  /\ flagAdded = [n \in Nodes |-> "unset"]
  /\ flags = [n \in Nodes |-> 0]
  /\ calls = {}
  /\ scanTimers = {}
  /\ runtimeValid = TRUE
  /\ cacheLoading = loading
  /\ results = <<>>
  /\ lastPost = 0
  /\ storedEnabled = {}
  /\ clicks = 0
  /\ popupOps = {}
  /\ lastSent = {}
  /\ extracted = [done |-> FALSE, username |-> <<>>]

\* The store was empty and loadCache() is done.
Init == InitWith({[u \in Ids |-> NoEntry]}, FALSE) /\ container = <<>>

Step(s) == Commit(s) /\ UNCHANGED now /\ UNCHANGED popupVars /\ UNCHANGED domVars

\* loadCache() gets the stored object, or, the context being lost, may get an
\* exception instead (lines 95-102).
LoadCacheDone(clk) ==
  /\ cacheLoading
  /\ \E got \in (IF runtimeValid THEN {TRUE} ELSE BOOLEAN) :
       Step([(IF got THEN LoadEntries(St(clk)) ELSE St(clk))
               EXCEPT !.cacheLoading = FALSE])

\* The page adds the node n; the MutationObserver of init (lines 808-822) sees
\* an added node and scans.
AddNode(n, clk) ==
  /\ n \notin present
  /\ LET s == ProcessUsernames([St(clk) EXCEPT !.present = @ \cup {n}]) IN
     RidsWithin(s, MaxRid) /\ Step(s)

\* A scan by the observer (any other insertion, the extension's own included)
\* or by setInterval(processUsernames, 2000).
Scan(clk) ==
  /\ extensionEnabled
  /\ LET s == ProcessUsernames(St(clk)) IN RidsWithin(s, MaxRid) /\ Step(s)

\* setTimeout(() => processUsernames(), 500) of the toggle listener.
ScanTimer(t, clk) ==
  /\ t \in scanTimers /\ t <= now
  /\ LET s == ProcessUsernames([St(clk) EXCEPT !.scanTimers = @ \ {t}]) IN
     RidsWithin(s, MaxRid) /\ Step(s)

\* chrome.runtime.onMessage: {type: 'extensionToggle', enabled}
OnExtensionToggle(s0, enabled) ==
  LET s == [s0 EXCEPT !.extensionEnabled = enabled] IN
  IF enabled THEN [s EXCEPT !.scanTimers = @ \cup {After(s, TOGGLE_SCAN_DELAY)}]
  ELSE RemoveAllFlags(s)

Toggle(enabled, clk) ==
  /\ runtimeValid
  /\ Step(OnExtensionToggle(St(clk), enabled))

\* ------------------------------------------------------------------ the popup
\* result[TOGGLE_KEY] !== undefined ? result[TOGGLE_KEY] : DEFAULT_ENABLED
ReadEnabled(stored) == IF stored = {} THEN DEFAULT_ENABLED ELSE CHOOSE v \in stored : TRUE

PopupStep(ops) == popupOps' = ops /\ UNCHANGED <<now, clicks>> /\ UNCHANGED domVars

\* A click on the switch: the handler asks the store for TOGGLE_KEY.
ToggleClick ==
  /\ clicks < MaxClicks
  /\ clicks' = clicks + 1
  /\ popupOps' = popupOps \cup {[k |-> clicks + 1, phase |-> "get", newState |-> FALSE]}
  /\ Commit(St(FALSE))
  /\ UNCHANGED <<now, storedEnabled, lastSent>> /\ UNCHANGED domVars

\* The callback of chrome.storage.local.get: newState = !currentState, and
\* the write is asked for.
OnStorageGet(op) ==
  /\ op \in popupOps /\ op.phase = "get"
  /\ PopupStep((popupOps \ {op}) \cup
                 {[op EXCEPT !.phase = "set", !.newState = ~ReadEnabled(storedEnabled)]})
  /\ Commit(St(FALSE))
  /\ UNCHANGED <<storedEnabled, lastSent>>

\* The store takes the write and calls back: updateToggle, then tabs.query.
OnStorageSet(op) ==
  /\ op \in popupOps /\ op.phase = "set"
  /\ storedEnabled' = {op.newState}
  /\ PopupStep((popupOps \ {op}) \cup {[op EXCEPT !.phase = "query"]})
  /\ Commit(St(FALSE))
  /\ UNCHANGED lastSent

\* The callback of chrome.tabs.query: the message is sent if there is a tab.
OnTabsQuery(op, hasTab) ==
  /\ op \in popupOps /\ op.phase = "query"
  /\ PopupStep(IF hasTab THEN (popupOps \ {op}) \cup {[op EXCEPT !.phase = "msg"]}
               ELSE popupOps \ {op})
  /\ lastSent' = IF hasTab THEN {op.newState} ELSE lastSent
  /\ Commit(St(FALSE))
  /\ UNCHANGED storedEnabled

\* The content script receives the extensionToggle message of op.
DeliverToggle(op) ==
  /\ op \in popupOps /\ op.phase = "msg"
  /\ runtimeValid
  /\ PopupStep(popupOps \ {op})
  /\ Commit(OnExtensionToggle(St(FALSE), op.newState))
  /\ UNCHANGED <<storedEnabled, lastSent>>

\* The sleep of a waiting addFlagToUsername ends.
WaiterWake(c, clk) ==
  /\ c \in calls /\ c.kind = "wait" /\ c.at <= now
  /\ Step(WaiterResume(St(clk), c))

\* The sleep of the drain loop ends: line 195 on.
DrainWake(clk) ==
  /\ drainWake # NoTimer /\ drainWake <= now
  /\ Step(DispatchLoop(DispatchHead([St(clk) EXCEPT !.drainWake = NoTimer])))

\* setTimeout(processRequestQueue, ...) fires.
QueueTimer(t, clk) ==
  /\ t \in queueTimers /\ t <= now
  /\ Step(ProcessRequestQueue([St(clk) EXCEPT !.queueTimers = @ \ {t}]))

\* The page script answers the request m.  Every registered handler sees the
\* message; the one with the same screenName and requestId takes it.  A
\* rate-limited answer carries no location.
Response(m, location, isRateLimited, clk) ==
  /\ m \in posted
  /\ isRateLimited => location = NULL
  /\ LET s == [St(clk) EXCEPT !.posted = @ \ {m}]
         hs == {l \in s.listeners : l.screenName = m.screenName /\ l.rid = m.rid}
     IN Step(IF hs = {} THEN s
             ELSE OnLocationResponse(s, CHOOSE l \in hs : TRUE, location, isRateLimited))

\* The 10 s timer of a request fires.
RequestTimeout(l, clk) ==
  /\ l \in listeners /\ l.at <= now
  /\ Step(OnRequestTimeout(St(clk), l))

\* The page script posts {type: '__rateLimitInfo', resetTime, waitTime}.
RateLimitInfo(resetTime) ==
  /\ rateLimitResetTime' = resetTime
  /\ UNCHANGED <<now, locationCache, storedCache, saveCacheTimeout, saving,
                 requestQueue, isProcessingQueue, drainWake, lastRequestTime,
                 activeRequests, queueTimers, listeners, pending, posted,
                 extensionEnabled, processingUsernames, present, flagAdded,
                 flags, calls, scanTimers, runtimeValid, cacheLoading, results,
                 lastPost,
                 storedEnabled, clicks, popupOps, lastSent, container, extracted>>

\* The debounce timer of saveCacheEntry fires: saveCache() up to its await.
SaveTimer(clk) ==
  /\ saveCacheTimeout # NoTimer /\ saveCacheTimeout <= now /\ ~saving
  /\ Step(IF ~runtimeValid THEN [St(clk) EXCEPT !.saveCacheTimeout = NoTimer]
          ELSE [St(clk) EXCEPT !.storedCache = CacheObj(St(clk)), !.saving = TRUE])

\* chrome.storage.local.set settles (or throws): saveCache.timeout = null.
SaveDone(clk) ==
  /\ saving
  /\ Step([St(clk) EXCEPT !.saving = FALSE, !.saveCacheTimeout = NoTimer])

\* The extension is reloaded or removed under the page.
InvalidateContext(clk) ==
  /\ runtimeValid
  /\ Step([St(clk) EXCEPT !.runtimeValid = FALSE])

\* A direct call of getUserLocation(u) by the scheduler's driver.
CallGetUserLocation(u, maxCalls, clk) ==
  /\ Len(results) < maxCalls
  /\ LET k == Len(results) + 1
         r == GetUserLocation([St(clk) EXCEPT !.results = Append(@, "pending")], u,
                              NewCall("direct", 0, NoTimer, k))
     IN Step(IF r.hit THEN [r.s EXCEPT !.results[k] = r.value] ELSE r.s)

\* ------------------------------------------------------------ extractUsername
\* Strings are sequences of characters.  A link is [href, text, inner]: its
\* href attribute, its textContent, and whether it lies in the nested
\* UserName / User-Name element that line 275 finds.  The element itself is
\* always such a container (lines 781-785, 792-796), so closest() finds one
\* for every link in it.
excludedRoutes ==
  <<<<"h", "o", "m", "e">>,
    <<"e", "x", "p", "l", "o", "r", "e">>,
    <<"n", "o", "t", "i", "f", "i", "c", "a", "t", "i", "o", "n", "s">>,
    <<"m", "e", "s", "s", "a", "g", "e", "s">>,
    <<"i">>,
    <<"c", "o", "m", "p", "o", "s", "e">>,
    <<"s", "e", "a", "r", "c", "h">>,
    <<"s", "e", "t", "t", "i", "n", "g", "s">>,
    <<"b", "o", "o", "k", "m", "a", "r", "k", "s">>,
    <<"l", "i", "s", "t", "s">>,
    <<"c", "o", "m", "m", "u", "n", "i", "t", "i", "e", "s">>,
    <<"h", "a", "s", "h", "t", "a", "g">>,
    <<"w", "h", "o", "_", "t", "o", "_", "f", "o", "l", "l", "o", "w">>,
    <<"t", "o", "p", "i", "c", "s">>,
    <<"v", "e", "r", "i", "f", "i", "e", "d", "-", "o", "r", "g", "s", "-", "s", "i", "g", "n", "u", "p">>>>

StartsWith(s, p) == Len(p) <= Len(s) /\ SubSeq(s, 1, Len(p)) = p
Includes(s, p) == \E i \in 1..(Len(s) - Len(p) + 1) : SubSeq(s, i, i + Len(p) - 1) = p
InList(list, s) == \E i \in 1..Len(list) : list[i] = s

Digits == {"0", "1", "2", "3", "4", "5", "6", "7", "8", "9"}
LowerLetters == {"a", "b", "c", "d", "e", "f", "g", "h", "i", "j", "k", "l", "m",
                 "n", "o", "p", "q", "r", "s", "t", "u", "v", "w", "x", "y", "z"}
UpperLetters == {"A", "B", "C", "D", "E", "F", "G", "H", "I", "J", "K", "L", "M",
                 "N", "O", "P", "Q", "R", "S", "T", "U", "V", "W", "X", "Y", "Z"}
\* [a-zA-Z0-9_]
WordChars == LowerLetters \cup UpperLetters \cup Digits \cup {"_"}

\* href.match(/^\/([^\/\?]+)/): the first path segment, <<>> when no match.
RECURSIVE SegmentEnd(_, _)
SegmentEnd(href, i) ==
  IF i > Len(href) \/ href[i] \in {"/", "?"} THEN i - 1 ELSE SegmentEnd(href, i + 1)
FirstSegment(href) ==
  IF Len(href) >= 2 /\ href[1] = "/" THEN SubSeq(href, 2, SegmentEnd(href, 2)) ELSE <<>>

\* String.prototype.trim, for the blank.
RECURSIVE TrimLeft(_)
TrimLeft(s) == IF s # <<>> /\ Head(s) = " " THEN TrimLeft(Tail(s)) ELSE s
RECURSIVE TrimRight(_)
TrimRight(s) ==
  IF s # <<>> /\ s[Len(s)] = " " THEN TrimRight(SubSeq(s, 1, Len(s) - 1)) ELSE s
Trim(s) == TrimRight(TrimLeft(s))

\* String.prototype.toLowerCase, for the capitals the link texts use.
LowerChar(c) == CASE c = "B" -> "b" [] c = "H" -> "h" [] OTHER -> c
ToLowerCase(s) == [i \in 1..Len(s) |-> LowerChar(s[i])]

\* /^\d+$/
IsNumber(s) == s # <<>> /\ \A i \in 1..Len(s) : s[i] \in Digits

\* textContent.matchAll(/@([a-zA-Z0-9_]+)/g): the words after an @, in order.
RECURSIVE WordEnd(_, _)
WordEnd(s, i) == IF i > Len(s) \/ s[i] \notin WordChars THEN i - 1 ELSE WordEnd(s, i + 1)
RECURSIVE AtMentions(_, _)
AtMentions(s, i) ==
  IF i > Len(s) THEN <<>>
  ELSE IF s[i] = "@" /\ WordEnd(s, i + 1) > i
  THEN <<SubSeq(s, i + 1, WordEnd(s, i + 1))>> \o AtMentions(s, WordEnd(s, i + 1) + 1)
  ELSE AtMentions(s, i + 1)

\* element.textContent: the texts of the links, one after the other.
RECURSIVE TextContent(_)
TextContent(links) == IF links = <<>> THEN <<>> ELSE Head(links).text \o TextContent(Tail(links))

\* Lines 275-293: the links of the nested name element.
RECURSIVE NestedPhase(_)
NestedPhase(links) ==
  IF links = <<>> THEN <<>>
  ELSE LET username == FirstSegment(Head(links).href) IN
       IF /\ Head(links).inner
          /\ username # <<>>
          /\ ~InList(excludedRoutes, username)
          /\ ~StartsWith(username, <<"h", "a", "s", "h", "t", "a", "g">>)
          /\ ~StartsWith(username, <<"s", "e", "a", "r", "c", "h">>)
          /\ Len(username) > 0 /\ Len(username) < 20
       THEN username
       ELSE NestedPhase(Tail(links))

\* Lines 295-344: every link of the element.
RECURSIVE LinkPhase(_, _)
LinkPhase(links, seenUsernames) ==
  IF links = <<>> THEN <<>>
  ELSE
  LET link == Head(links)
      potentialUsername == FirstSegment(link.href)
      seen == seenUsernames \cup {potentialUsername}
      text == Trim(link.text)
      linkText == ToLowerCase(text)
      usernameLower == ToLowerCase(potentialUsername)
  IN
  IF potentialUsername = <<>> THEN LinkPhase(Tail(links), seenUsernames)
  ELSE IF potentialUsername \in seenUsernames THEN LinkPhase(Tail(links), seenUsernames)
  ELSE IF \E i \in 1..Len(excludedRoutes) :
            \/ potentialUsername = excludedRoutes[i]
            \/ StartsWith(potentialUsername, excludedRoutes[i])
  THEN LinkPhase(Tail(links), seen)
  ELSE IF Includes(potentialUsername, <<"s", "t", "a", "t", "u", "s">>) \/ IsNumber(potentialUsername)
  THEN LinkPhase(Tail(links), seen)
  ELSE IF StartsWith(text, <<"@">>) THEN potentialUsername
  ELSE IF linkText = usernameLower \/ linkText = <<"@">> \o usernameLower
  THEN potentialUsername
  ELSE IF Len(potentialUsername) > 0 /\ Len(potentialUsername) < 20
          /\ ~Includes(potentialUsername, <<"/">>)
  THEN potentialUsername
  ELSE LinkPhase(Tail(links), seen)

\* Lines 346-357: the @mentions of the element's text that have a link.
RECURSIVE MentionPhase(_, _)
MentionPhase(links, mentions) ==
  IF mentions = <<>> THEN <<>>
  ELSE LET username == Head(mentions) IN
       IF \E i \in 1..Len(links) :
            \/ links[i].href = <<"/">> \o username
            \/ StartsWith(links[i].href, <<"/">> \o username \o <<"?">>)
       THEN username
       ELSE MentionPhase(links, Tail(mentions))

\* extractUsername(element); <<>> stands for null.
ExtractUsername(links) ==
  IF NestedPhase(links) # <<>> THEN NestedPhase(links)
  ELSE IF LinkPhase(links, {}) # <<>> THEN LinkPhase(links, {})
  ELSE MentionPhase(links, AtMentions(TextContent(links), 1))

\* The hrefs and the link texts of the containers that are tried.
Hrefs == {<<"/", "h", "o", "m", "e">>,
          <<"/", "h", "o", "m", "e", "?", "s", "=", "2", "0">>,
          <<"/", "b", "o", "b">>,
          <<"/", "i", "/", "l", "i", "s", "t", "s">>,
          <<"/", "i", "v", "y">>}
Texts == {<<>>,
          <<"@", "h", "o", "m", "e">>,
          <<"@", "b", "o", "b">>,
          <<"B", "o", "b">>,
          <<"b", "o", "b">>,
          <<" ", "@", "i", "v", "y">>}
Links == [href : Hrefs, text : Texts, inner : BOOLEAN]
Containers ==
  UNION {[1..n -> Links] : n \in 0..MaxLinks}

\* processUsernames hands the element to extractUsername (lines 785, 796).
Extract ==
  /\ ~extracted.done
  /\ extracted' = [done |-> TRUE, username |-> ExtractUsername(container)]
  /\ UNCHANGED container
  /\ Commit(St(FALSE))
  /\ UNCHANGED now /\ UNCHANGED popupVars

\* ------------------------------------------------------------- time passage
Timers ==
  (IF drainWake = NoTimer THEN {} ELSE {drainWake})
    \cup (IF saveCacheTimeout = NoTimer \/ saving THEN {} ELSE {saveCacheTimeout})
    \cup queueTimers \cup scanTimers
    \cup {l.at : l \in listeners} \cup {c.at : c \in {x \in calls : x.kind = "wait"}}

\* The clock advances to the instant of the next timer, or by step when no
\* timer is that near; a timer fires at the instant it is due.
NextInstant(step) ==
  LET ts == {t \in Timers : t <= now + step} IN
  IF ts = {} THEN now + step ELSE CHOOSE t \in ts : \A x \in ts : t <= x

Tick(step, horizon) ==
  /\ now < horizon
  /\ \A t \in Timers : t > now
  /\ now' = NextInstant(step)
  /\ UNCHANGED <<locationCache, storedCache, saveCacheTimeout, saving, requestQueue,
                 isProcessingQueue, drainWake, lastRequestTime, activeRequests,
                 rateLimitResetTime, queueTimers, listeners, pending, posted,
                 extensionEnabled, processingUsernames, present, flagAdded,
                 flags, calls, scanTimers, runtimeValid, cacheLoading, results,
                 lastPost,
                 storedEnabled, clicks, popupOps, lastSent, container, extracted>>

\* Without the clock: a pause of MIN_REQUEST_INTERVAL or more, and past the
\* reset time of a rate limit.  The state is kept up to a translation of
\* time: instead of moving now forward, the two instants the program compares
\* with it move into the past (and read 0 there).
Elapse ==
  /\ lastRequestTime > 0 \/ rateLimitResetTime > 0
  /\ lastRequestTime' = 0
  /\ rateLimitResetTime' = 0
  /\ lastPost' = 0
  /\ UNCHANGED <<now, locationCache, storedCache, saveCacheTimeout, saving,
                 requestQueue, isProcessingQueue, drainWake, activeRequests,
                 queueTimers, listeners, pending, posted, extensionEnabled,
                 processingUsernames, present, flagAdded, flags, calls,
                 scanTimers, runtimeValid, cacheLoading, results,
                 storedEnabled, clicks, popupOps, lastSent, container, extracted>>

\* ------------------------------------------------------------ specifications
\* The annotator over the scheduler and the bridge: nodes appear, scans run,
\* the popup toggles, the page answers or not.  The clock does not run.
Next ==
  \/ \E n \in Nodes : AddNode(n, FALSE)
  \/ Scan(FALSE)
  \/ \E t \in scanTimers : ScanTimer(t, FALSE)
  \/ \E e \in BOOLEAN : Toggle(e, FALSE)
  \/ \E c \in calls : WaiterWake(c, FALSE)
  \/ DrainWake(FALSE)
  \/ \E t \in queueTimers : QueueTimer(t, FALSE)
  \/ \E m \in posted, loc \in Locations \cup {NULL}, rl \in BOOLEAN :
        Response(m, loc, rl, FALSE)
  \/ \E l \in listeners : RequestTimeout(l, FALSE)
  \/ Elapse

Spec == Init /\ [][Next]_vars

\* The scheduler under the clock: direct calls of getUserLocation for an
\* account the page has no location of, so that every call reaches the queue.
\* The horizon ends before any 10 s or 5 s timer is due.
NextSched ==
  \/ CallGetUserLocation("a", MaxCalls, TRUE)
  \/ DrainWake(TRUE)
  \/ \E t \in queueTimers : QueueTimer(t, TRUE)
  \/ \E m \in posted, rl \in BOOLEAN : Response(m, NULL, rl, TRUE)
  \/ Tick(SchedStep, SchedHorizon)

SpecSched == Init /\ [][NextSched]_vars

\* The scheduler under the clock and under rate limits: direct calls, any
\* answer, and the notifications of the page.
NextLimit ==
  \/ \E u \in Ids : CallGetUserLocation(u, LimitCalls, TRUE)
  \/ DrainWake(TRUE)
  \/ \E t \in queueTimers : QueueTimer(t, TRUE)
  \/ \E m \in posted, loc \in Locations \cup {NULL}, rl \in BOOLEAN :
        Response(m, loc, rl, TRUE)
  \/ \E r \in 1..MaxResetSec : RateLimitInfo(NowSec + r)
  \/ Tick(SchedStep, SchedHorizon)

SpecLimit == Init /\ [][NextLimit]_vars

\* The bridge under the clock, past the 10 s timeout of a request.
NextBridge ==
  \/ \E u \in Ids : CallGetUserLocation(u, BridgeCalls, TRUE)
  \/ DrainWake(TRUE)
  \/ \E t \in queueTimers : QueueTimer(t, TRUE)
  \/ \E m \in posted, loc \in Locations \cup {NULL}, rl \in BOOLEAN :
        Response(m, loc, rl, TRUE)
  \/ \E l \in listeners : RequestTimeout(l, TRUE)
  \/ SaveTimer(TRUE)
  \/ SaveDone(TRUE)
  \/ Tick(BridgeStep, BridgeHorizon)

SpecBridge == Init /\ [][NextBridge]_vars

\* The cache: the load at start over any stored object, puts made by the
\* answers to direct calls, the debounced flush, the loss of the extension
\* context.  The clock does not run.
InitCache == InitWith(InitialStores, TRUE) /\ container = <<>>

NextCache ==
  \/ LoadCacheDone(FALSE)
  \/ \E u \in Ids : CallGetUserLocation(u, CacheCalls, FALSE)
  \/ DrainWake(FALSE)
  \/ \E t \in queueTimers : QueueTimer(t, FALSE)
  \/ \E m \in posted, loc \in Locations \cup {NULL}, rl \in BOOLEAN :
        Response(m, loc, rl, FALSE)
  \/ \E l \in listeners : RequestTimeout(l, FALSE)
  \/ SaveTimer(FALSE)
  \/ SaveDone(FALSE)
  \/ InvalidateContext(FALSE)
  \/ Elapse

SpecCache == InitCache /\ [][NextCache]_vars

\* The annotator when the popup disables the extension only while nothing is
\* in flight: no call is suspended, the queue is empty, no request unsettled.
Quiet == calls = {} /\ requestQueue = <<>> /\ pending = {}

NextRescan ==
  \/ \E n \in Nodes : AddNode(n, FALSE)
  \/ Scan(FALSE)
  \/ \E t \in scanTimers : ScanTimer(t, FALSE)
  \/ Quiet /\ Toggle(FALSE, FALSE)
  \/ Toggle(TRUE, FALSE)
  \/ \E c \in calls : WaiterWake(c, FALSE)
  \/ DrainWake(FALSE)
  \/ \E t \in queueTimers : QueueTimer(t, FALSE)
  \/ \E m \in posted, loc \in Locations \cup {NULL}, rl \in BOOLEAN :
        Response(m, loc, rl, FALSE)
  \/ \E l \in listeners : RequestTimeout(l, FALSE)
  \/ Elapse

SpecRescan == Init /\ [][NextRescan]_vars

\* The scheduler without the clock, for progress, against a page that never
\* answers: every request is settled by its own timeout, and the page's
\* rate-limit notifications keep coming.  Timers that are set do fire, and a
\* pause outlasts any rate limit.  A drain timer that finds the rate limit
\* still on re-arms itself and changes nothing, hence the strong fairness on
\* the drain timers.
NextLive ==
  \/ CallGetUserLocation("a", LiveCalls, FALSE)
  \/ DrainWake(FALSE)
  \/ \E t \in queueTimers : QueueTimer(t, FALSE)
  \/ \E l \in listeners : RequestTimeout(l, FALSE)
  \/ RateLimitInfo(NowSec + 1)
  \/ Elapse

SpecLive ==
  /\ Init /\ [][NextLive]_vars
  /\ WF_vars(DrainWake(FALSE))
  /\ SF_vars(\E t \in queueTimers : QueueTimer(t, FALSE))
  /\ WF_vars(\E l \in listeners : RequestTimeout(l, FALSE))
  /\ WF_vars(Elapse)

\* The annotator left enabled, the popup never touched, under fair
\* scheduling: the periodic scan keeps running, every sleep ends, every timer
\* that is set fires.  The page may answer or stay silent.
NextSteady ==
  \/ \E n \in Nodes : AddNode(n, FALSE)
  \/ Scan(FALSE)
  \/ \E c \in calls : WaiterWake(c, FALSE)
  \/ DrainWake(FALSE)
  \/ \E t \in queueTimers : QueueTimer(t, FALSE)
  \/ \E m \in posted, loc \in Locations \cup {NULL}, rl \in BOOLEAN :
        Response(m, loc, rl, FALSE)
  \/ \E l \in listeners : RequestTimeout(l, FALSE)
  \/ Elapse

SpecSteady ==
  /\ Init /\ [][NextSteady]_vars
  /\ WF_vars(Scan(FALSE))
  /\ WF_vars(\E c \in calls : WaiterWake(c, FALSE))
  /\ WF_vars(DrainWake(FALSE))
  /\ WF_vars(\E t \in queueTimers : QueueTimer(t, FALSE))
  /\ WF_vars(\E l \in listeners : RequestTimeout(l, FALSE))
  /\ WF_vars(Elapse)

\* The cache under the clock while only the identifier "b" is ever asked
\* for: whatever the store holds for "a" was resolved before this page load.
NextFlush ==
  \/ LoadCacheDone(TRUE)
  \/ CallGetUserLocation("b", FlushCalls, TRUE)
  \/ DrainWake(TRUE)
  \/ \E t \in queueTimers : QueueTimer(t, TRUE)
  \/ \E m \in posted, loc \in Locations \cup {NULL} : Response(m, loc, FALSE, TRUE)
  \/ SaveTimer(TRUE)
  \/ SaveDone(TRUE)
  \/ Tick(FlushStep, FlushHorizon)

SpecFlush == InitCache /\ [][NextFlush]_vars

\* The cache with the store reachable and the extension left enabled, under
\* fair scheduling: the debounce timer fires, the storage write settles, and
\* the scheduler's timers fire.  The page may answer or stay silent.
NextStore ==
  \/ \E u \in Ids : CallGetUserLocation(u, StoreCalls, FALSE)
  \/ DrainWake(FALSE)
  \/ \E t \in queueTimers : QueueTimer(t, FALSE)
  \/ \E m \in posted, loc \in Locations \cup {NULL} : Response(m, loc, FALSE, FALSE)
  \/ \E l \in listeners : RequestTimeout(l, FALSE)
  \/ SaveTimer(FALSE)
  \/ SaveDone(FALSE)
  \/ Elapse

SpecStore ==
  /\ Init /\ [][NextStore]_vars
  /\ WF_vars(DrainWake(FALSE))
  /\ WF_vars(\E t \in queueTimers : QueueTimer(t, FALSE))
  /\ WF_vars(\E l \in listeners : RequestTimeout(l, FALSE))
  /\ WF_vars(SaveTimer(FALSE))
  /\ WF_vars(SaveDone(FALSE))
  /\ WF_vars(Elapse)

\* The annotator from the start of init: loadCache() is still awaiting the
\* store (line 805 does not await it) while the observer and the scans run.
NextStartup ==
  \/ LoadCacheDone(FALSE)
  \/ \E n \in Nodes : AddNode(n, FALSE)
  \/ Scan(FALSE)
  \/ \E c \in calls : WaiterWake(c, FALSE)
  \/ DrainWake(FALSE)
  \/ \E t \in queueTimers : QueueTimer(t, FALSE)
  \/ \E m \in posted, loc \in Locations \cup {NULL}, rl \in BOOLEAN :
        Response(m, loc, rl, FALSE)
  \/ \E l \in listeners : RequestTimeout(l, FALSE)
  \/ SaveTimer(FALSE)
  \/ SaveDone(FALSE)
  \/ Elapse

SpecStartup == InitCache /\ [][NextStartup]_vars

\* The popup over the content script: clicks, the callbacks of the store and
\* of the tabs API in any order, and the delivery of the messages.
NextPopup ==
  \/ ToggleClick
  \/ \E op \in popupOps : OnStorageGet(op)
  \/ \E op \in popupOps : OnStorageSet(op)
  \/ \E op \in popupOps, hasTab \in BOOLEAN : OnTabsQuery(op, hasTab)
  \/ \E op \in popupOps : DeliverToggle(op)

SpecPopup == Init /\ [][NextPopup]_vars

\* extractUsername on every container of up to MaxLinks links.
InitExtract == InitWith({[u \in Ids |-> NoEntry]}, FALSE) /\ container \in Containers

NextExtract == Extract

SpecExtract == InitExtract /\ [][NextExtract]_vars

\* ------------------------------------------------------------------- claims
\* The resolution requests for the identifier u that are queued, or dispatched
\* and not yet settled.
QueuedFor(u) == {i \in 1..Len(requestQueue) : requestQueue[i].screenName = u}
UnsettledFor(u) ==
  {l \in listeners : l.screenName = u /\ \E q \in pending : q.rid = l.rid}

\* C1: at any moment at most one resolution request per identifier is queued
\* or in flight, whatever the extension toggle did before.
C1_OneRequestPerIdentifier ==
  \A u \in Ids : Cardinality(QueuedFor(u)) + Cardinality(UnsettledFor(u)) <= 1

\* A call of addFlagToUsername that enqueued a request, has not finished, and
\* has seen no reset since it started (its shimmer is still in the document).
Unfinished(c) == c \in calls /\ c.kind = "await" /\ c.shimmer

\* C2: while a call of addFlagToUsername for an identifier is unfinished and no
\* reset came in between, no call on another node with the same identifier
\* enqueues a resolution request.
C2_SecondCallEnqueuesNothing ==
  [][\A c1 \in calls : \A c2 \in calls' \ calls :
       (Unfinished(c1) /\ c2.node # c1.node /\ IdOf(c2.node) = IdOf(c1.node))
         => c2.kind # "await"]_vars

\* C3: the marker of a node only advances, unset -> (waiting | processing) ->
\* (true | failed), and true and failed stay, except in a step that runs
\* removeAllFlags.
Rank(m) == IF m = "unset" THEN 0 ELSE IF m \in {"waiting", "processing"} THEN 1 ELSE 2

C3_MarkerMonotone ==
  [][\/ \E clk \in BOOLEAN : Toggle(FALSE, clk)
     \/ \A n \in Nodes :
          /\ Rank(flagAdded'[n]) >= Rank(flagAdded[n])
          /\ Rank(flagAdded[n]) = 2 => flagAdded'[n] = flagAdded[n]]_vars

\* C4: a node never holds more than one flag image nor more than one loading
\* placeholder.
Shimmers(n) == {c \in calls : c.node = n /\ c.shimmer}

C4_OneFlagOnePlaceholder ==
  \A n \in Nodes : flags[n] <= 1 /\ Cardinality(Shimmers(n)) <= 1

\* A node that has its flag while another call for it is still awaiting a
\* location.
C4_FlaggedNodeAwaited ==
  \E n \in Nodes : flags[n] = 1 /\ \E c \in calls : c.node = n /\ c.kind = "await"

C6_NoDispatchWhileLimited ==
  [][rateLimitResetTime > NowSec => posted' \subseteq posted]_vars

\* C7: two consecutive dispatches start at least MIN_REQUEST_INTERVAL apart.
C7_DispatchSpacing ==
  [][~(posted' \subseteq posted) =>
       /\ Cardinality(posted' \ posted) = 1
       /\ lastPost > 0 => now - lastPost >= MIN_REQUEST_INTERVAL]_vars

\* Two requests in flight that were dispatched exactly one interval apart.
C7_TwoDispatchesOneIntervalApart ==
  \E q1, q2 \in pending : q2.since - q1.since = MIN_REQUEST_INTERVAL

\* C8: at most MAX_CONCURRENT_REQUESTS bridge requests are unsettled, and
\* activeRequests is their number.
C8_ConcurrencyCeiling ==
  /\ activeRequests = Cardinality(pending)
  /\ activeRequests <= MAX_CONCURRENT_REQUESTS

\* The drain ended at the ceiling with a request left in the queue.
C8_CeilingReached ==
  /\ activeRequests = MAX_CONCURRENT_REQUESTS
  /\ requestQueue # <<>> /\ ~isProcessingQueue

\* C9: a bridge request is settled within REQUEST_TIMEOUT of its posting; its
\* caller gets the location of the response to that very request, or null.
C9_SettlesWithinTimeout ==
  [][/\ \A q \in pending' : now' - q.since <= REQUEST_TIMEOUT
     /\ \A c \in calls \ calls' :
          \/ results'[c.k] = NULL
          \/ \E m \in posted \ posted' :
                /\ m.rid = c.rid
                /\ results'[c.k] = locationCache'[m.screenName]]_vars

\* The timeout has just settled a request the page did not answer.
C9_TimedOut ==
  /\ lastPost > 0 /\ now = lastPost + REQUEST_TIMEOUT
  /\ pending = {} /\ posted # {}
  /\ \E k \in 1..Len(results) : results[k] = NULL

\* C10: the response to a request that timed out changes nothing but the
\* page's own list of unanswered requests, and a listener is registered only
\* while its request is unsettled.
C10_LateResponseIgnored ==
  /\ [][\A m \in posted \ posted' :
          (\A q \in pending : q.rid # m.rid) =>
            UNCHANGED <<now, locationCache, storedCache, saveCacheTimeout,
                        saving, requestQueue, isProcessingQueue, drainWake,
                        lastRequestTime, activeRequests, rateLimitResetTime,
                        queueTimers, listeners, pending, extensionEnabled,
                        processingUsernames, present, flagAdded, flags, calls,
                        scanTimers, runtimeValid, cacheLoading, results,
                        lastPost>>]_vars
  /\ [](\A l \in listeners : \E q \in pending : q.rid = l.rid)

\* A request has timed out and the page has still to answer it.
C10_AnswerStillDue ==
  \E m \in posted :
    /\ \A q \in pending : q.rid # m.rid
    /\ \A l \in listeners : l.rid # m.rid
    /\ \E k \in 1..Len(results) : results[k] = NULL

\* C11: the handling of a response flagged isRateLimited, and the handling of
\* a request's timeout, leave the in-memory cache and the debounce of its
\* flush as they were.
C11_RateLimitedAndTimeoutCacheNothing ==
  [][(\/ \E m \in posted, clk \in BOOLEAN : Response(m, NULL, TRUE, clk)
      \/ \E l \in listeners, clk \in BOOLEAN : RequestTimeout(l, clk))
       => UNCHANGED <<locationCache, saveCacheTimeout, storedCache>>]_vars

\* The only call so far got null, the store being reachable, and no null was
\* cached nor any flush armed: the request was rate-limited or timed out.
C11_NullNotCached ==
  /\ Len(results) = 1 /\ results[1] = NULL /\ runtimeValid
  /\ \A u \in Ids : locationCache[u] # NULL
  /\ saveCacheTimeout = NoTimer /\ ~saving

\* C12: once a location is cached for an identifier then, short of a disable,
\* it stays cached and no further request for that identifier is enqueued (so
\* that every later getUserLocation returns that very location and posts
\* nothing).
C12_CachedLocationServed ==
  [][\/ \E clk \in BOOLEAN : Toggle(FALSE, clk)
     \/ \A u \in Ids : locationCache[u] \in Locations =>
          /\ locationCache'[u] = locationCache[u]
          /\ Cardinality(QueuedFor(u)') <= Cardinality(QueuedFor(u))]_vars

\* C13: right after a toggle message with enabled = false is handled the
\* document holds no flag, no placeholder and no marker, and the in-memory
\* cache and the in-progress set are empty.
C13_DisableReverts ==
  [][(\E clk \in BOOLEAN : Toggle(FALSE, clk)) =>
       /\ \A n \in Nodes : flags'[n] = 0 /\ flagAdded'[n] = "unset"
       /\ \A c \in calls' : ~c.shimmer
       /\ \A u \in Ids : locationCache'[u] = Absent
       /\ processingUsernames' = {}]_vars

\* The extension is disabled and a call that had put up its placeholder is
\* still awaiting its location, placeholder and marker gone.
C13_PlaceholderReverted ==
  /\ ~extensionEnabled
  /\ \E c \in calls : c.kind = "await" /\ ~c.shimmer /\ flagAdded[c.node] = "unset"

\* C14: while the extension is disabled no flag and no placeholder is put
\* into a node and no marker is set, calls and waiters that were pending when
\* the toggle-off came included.
C14_NoAnnotationWhileDisabled ==
  [][~extensionEnabled =>
       /\ \A n \in Nodes :
            /\ flags'[n] <= flags[n]
            /\ flagAdded'[n] = flagAdded[n] \/ flagAdded'[n] = "unset"
       /\ {c \in calls' : c.shimmer} \subseteq {c \in calls : c.shimmer}]_vars

\* No marker, no flag, nothing cached, no identifier in progress.
Clean ==
  /\ \A n \in Nodes : flagAdded[n] = "unset" /\ flags[n] = 0
  /\ \A u \in Ids : locationCache[u] = Absent
  /\ processingUsernames = {}

C16_PutReachesMemoryWithoutStore ==
  [][\A m \in posted, loc \in Locations, clk \in BOOLEAN :
       (/\ ~runtimeValid
        /\ \E l \in listeners : l.rid = m.rid /\ l.screenName = m.screenName
        /\ Response(m, loc, FALSE, clk))
         => locationCache'[m.screenName] = loc]_vars

\* The request numbers of a queue, in its order.
RidSeq(q) == [i \in 1..Len(q) |-> q[i].rid]

\* C17: requests are dispatched in the order of their enqueueing: in every
\* step, what is posted is the front of the queue (the request enqueued in
\* that step coming last), and what stays queued is all that was behind it.
C17_FifoDispatch ==
  [][LET new == calls' \ calls
         all == RidSeq(requestQueue) \o
                  (IF new = {} THEN <<>> ELSE <<(CHOOSE c \in new : TRUE).rid>>)
         j == Len(all) - Len(requestQueue')
     IN /\ Cardinality(new) <= 1
        /\ j >= 0
        /\ RidSeq(requestQueue') = SubSeq(all, j + 1, Len(all))
        /\ {m.rid : m \in posted' \ posted} = {all[i] : i \in 1..j}]_vars

\* A request has just been dispatched from a queue that held others behind
\* it, more than one request being in flight.
C17_DispatchedFromLongQueue ==
  /\ lastPost = now /\ Len(requestQueue) >= 2 /\ Cardinality(pending) >= 2

\* C18: every request that is enqueued is dispatched in the end, and the
\* promise of every call of getUserLocation is settled in the end (the calls
\* being finitely many: the queue empties, and no promise stays pending).
C18_NoStarvation ==
  /\ (requestQueue # <<>>) ~> (requestQueue = <<>>)
  /\ (\E k \in 1..Len(results) : results[k] = "pending")
       ~> (\A k \in 1..Len(results) : results[k] # "pending")

\* Requests wait in the queue, no drain loop running, behind the ceiling and
\* behind a rate limit.
C18_QueuedBehindCeilingAndLimit ==
  /\ requestQueue # <<>> /\ ~isProcessingQueue
  /\ activeRequests = MAX_CONCURRENT_REQUESTS
  /\ rateLimitResetTime > NowSec

\* C19: a node marked waiting reaches the marker true or failed in the end,
\* no reset taking place.
C19_WaitingIsTransient ==
  \A n \in Nodes :
    (flagAdded[n] = "waiting") ~> (flagAdded[n] \in {"true", "failed"})

\* C20: the request timeout of a resolution does not leave a node with the
\* terminal marker failed.
C20_TimeoutLeavesNodeRetriable ==
  [][(\E l \in listeners : RequestTimeout(l, FALSE))
       => \A n \in Nodes : flagAdded[n] # "failed" => flagAdded'[n] # "failed"]_vars

\* C21: a flush does not move the expiry or the cachedAt of a stored entry
\* whose identifier was not resolved again ("a" is never asked for under
\* SpecFlush): the entry keeps its stamps as long as it keeps its location.
C21_ExpiryFixed ==
  [][(/\ storedCache["a"].location # Absent
      /\ storedCache'["a"].location = storedCache["a"].location)
       => /\ storedCache'["a"].expiry = storedCache["a"].expiry
          /\ storedCache'["a"].cachedAt = storedCache["a"].cachedAt]_vars

\* C22: every location (not null) that the in-memory cache holds for an
\* identifier is written to the durable store in the end.
C22_PutReachesStore ==
  \A u \in Ids, loc \in Locations :
    (locationCache[u] = loc) ~> (storedCache[u].location = loc)

\* The durable store holds a location (not null) for u that has not expired.
StoredValid(u) ==
  /\ storedCache[u].location \notin {Absent, NULL}
  /\ Later(storedCache[u].expiry, Stamp(0, now))

\* C23: no request is enqueued or posted for an identifier that the durable
\* store holds a non-null, non-expired entry for.
C23_StoredIdentifierNotRequested ==
  [][\A u \in Ids :
       StoredValid(u) =>
         /\ Cardinality(QueuedFor(u)') <= Cardinality(QueuedFor(u))
         /\ \A m \in posted' \ posted : m.screenName # u]_vars

\* The initial value negated n times.
RECURSIVE Negated(_, _)
Negated(v, n) == IF n = 0 THEN v ELSE Negated(~v, n - 1)

\* C24: when every click made so far is fully processed, the stored value is
\* the initial value negated once per click, and the last toggle message
\* sent carries the stored value.
C24_EveryClickFlips ==
  (popupOps = {})
    => /\ ReadEnabled(storedEnabled) = Negated(DEFAULT_ENABLED, clicks)
       /\ lastSent # {} => lastSent = {ReadEnabled(storedEnabled)}

\* C25: extractUsername never returns a route of its denylist.
C25_NeverReservedRoute ==
  extracted.done => ~InList(excludedRoutes, extracted.username)
====
